---- MODULE Spec2Model ----
(***************************************************************************)
(* Model of one fuzzing worker of libafl_qemu_skeleton: the guest harness  *)
(* (src/src/harness.rs), the syscall input injector                        *)
(* (src/src/modules/input_injector.rs) and the part of the orchestrator    *)
(* that wires them and evaluates an execution (src/src/instance.rs,        *)
(* src/src/fuzzer.rs).                                                     *)
(*                                                                         *)
(* Sizes are scaled: MiB stands for the 1,048,576 bytes used by both       *)
(* max_size and MAX_INPUT_SIZE.  Guest memory is a small array of cells:   *)
(* cell 0 is never mapped, the guest owns two cells of its own, and the    *)
(* input region is mapped by Harness::init.                                *)
(***************************************************************************)
EXTENDS Integers, Sequences, FiniteSets, TLC

\* ---------------------------------------------------------------- bounds
\* Scaled unit standing for 1,048,576 bytes.
MiB == 2

\* --------------------------------------------------------- program constants
\* Variant: the injector's limit is one byte more than the region holds.
max_size_over == MiB + 1
\* input_injector.rs:21  max_size: 1048576
max_size == MiB
\* harness.rs:17  pub const MAX_INPUT_SIZE: usize = 1_048_576
MAX_INPUT_SIZE == MiB

Byte == {0, 1}
\* Candidates may be one byte longer than the capacity, so truncation occurs.
MaxLen == max_size + 1

\* Guest addresses.  0 is the unmapped null cell; the guest's own buffer
\* follows it; the rest is where map_private may place the input region.
GuestBuf == {1, 2}
RegionBase == 3
Region(base) == base..(base + MAX_INPUT_SIZE - 1)
Addr == 0..(RegionBase + MAX_INPUT_SIZE - 1)

\* Requested lengths of read, destinations, mmap prot/flags values.
ReadLens == {0, 1, 2, MaxLen + 1}
\* Destinations of a read: the null cell, the guest's buffer, the input region.
ReadDests == {0, 1, RegionBase}
Fds == {0, 3}
\* prot: PROT_READ = 1, PROT_WRITE = 2, PROT_EXEC = 4;
\* flags: MAP_SHARED = 1, MAP_PRIVATE = 2, MAP_ANONYMOUS = 32.
Prots == {1, 3, 5}
MapFlags == {1, 2, 34}
Exits == {"exit", "exit_group"}
ExitCodes == {0, 1}
\* Syscalls the hook has no branch for.
Others == {"write", "openat"}
SysNums == {"read", "mmap", "munmap"} \cup Exits \cup Others
\* Module tuples a caller hands to Instance::run.
Callers == {<<"caller">>}

\* All byte sequences of length at most n.
RECURSIVE SeqsUpTo(_)
SeqsUpTo(n) == IF n = 0 THEN {<<>>}
               ELSE SeqsUpTo(n - 1) \cup [1..n -> Byte]
Candidates == SeqsUpTo(MaxLen)

Min(a, b) == IF a <= b THEN a ELSE b
Take(s, k) == SubSeq(s, 1, k)
Drop(s, k) == SubSeq(s, k + 1, Len(s))

VARIABLES
    pc,             \* position of the worker process
    breakpoints,    \* breakpoints armed in the emulator
    h_input_addr,   \* Harness.input_addr
    input,          \* InputInjectorModule.input (staged bytes)
    input_addr,     \* InputInjectorModule.input_addr
    hooks,          \* number of pre-syscall hooks installed
    first_done,     \* the emulator has run first_exec in this process
    metadata,       \* ExecMeta records held by the fuzzing-engine state
    mem,            \* guest memory content
    mapped,         \* guest addresses that are mapped
    cur,            \* candidate of the current execution
    stale,          \* the last pre_exec found unread bytes of an earlier run
    delivered,      \* bytes returned by intercepted reads this execution
    last,           \* last syscall seen by the guest and its hook result
    verdict,        \* how the engine classified the last execution
    inherited,      \* the state this process started from had the flag set
    modules,        \* the emulator's module tuple, in order
    obs             \* what was observed of the last emulator run

vars == <<pc, breakpoints, h_input_addr, input, input_addr, hooks, first_done,
          metadata, mem, mapped, cur, stale, delivered, last, verdict,
          inherited, modules, obs>>

\* SyscallHookResult::new(None) / ::new(Some(v)); "pending" = no result.
NoSyscall == [sys |-> "none", a1 |-> 0, a2 |-> 0, a3 |-> 0, res |-> "pending", val |-> 0]
HookNone(s, x1, x2, x3) ==
    [sys |-> s, a1 |-> x1, a2 |-> x2, a3 |-> x3, res |-> "None", val |-> 0]
HookSome(s, x1, x2, x3, v) ==
    [sys |-> s, a1 |-> x1, a2 |-> x2, a3 |-> x3, res |-> "Some", val |-> v]
HookDiverged(s, x1, x2, x3) ==
    [sys |-> s, a1 |-> x1, a2 |-> x2, a3 |-> x3, res |-> "pending", val |-> 0]

\* ------------------------------------------------------------ library calls
\* OwnedSlice::truncate as called at input_injector.rs:73: fails (None) when
\* the new length exceeds the current one, otherwise keeps the prefix.
Truncate(tb, new_len) ==
    IF new_len <= Len(tb) THEN [ok |-> TRUE, val |-> Take(tb, new_len)]
    ELSE [ok |-> FALSE, val |-> tb]

\* Qemu::write_mem: Err when some cell of the range is not mapped; a write of
\* zero bytes touches no cell and succeeds.
WriteOk(mp, addr, buf) == \A i \in 1..Len(buf) : (addr + i - 1) \in mp
WriteMem(m, addr, buf) ==
    [a \in Addr |-> IF a >= addr /\ a < addr + Len(buf) THEN buf[a - addr + 1]
                    ELSE m[a]]

\* ExecMeta::new(): the flag starts cleared.
ExecMetaNew == [ignore |-> FALSE]

\* IgnoreExitFeedback::is_interesting: true when the run is not to be ignored.
IgnoreExitFeedback(md) == ~(md # <<>> /\ md[1].ignore)

\* --------------------------------------------------------------- instance.rs
\* feedback_or!(feedback_and_fast!(map_feedback, ignore_exit_feedback),
\*              TimeFeedback): TimeFeedback is never interesting.
Feedback(cov, md) == (cov /\ IgnoreExitFeedback(md)) \/ FALSE

\* feedback_and_fast!(CrashFeedback::new(), MaxMapFeedback::new(..))
Objective(kind, cov) == kind = "Crash" /\ cov

\* Variant: feedback_and! instead of feedback_and_fast!, which evaluates
\* IgnoreExitFeedback whatever the map feedback says.
FlagReadEager(kind, cov) == ~Objective(kind, cov)

\* Whether the evaluation reads ExecMeta.ignore: the feedback is evaluated
\* only when the objective is not interesting, and feedback_and_fast!
\* evaluates IgnoreExitFeedback only when the map feedback is interesting.
FlagRead(kind, cov) == ~Objective(kind, cov) /\ cov

\* Prepend::prepend puts the new module in front of the tuple.
Prepend(tuple, m) == <<m>> \o tuple

\* Variant: the injector and the snapshot module change places.
ModuleStackInjectorFirst(caller) ==
    Prepend(Prepend(Prepend(Prepend(caller, "edge_coverage"), "snapshot"),
                    "reg_reset"), "input_injector")

\* Instance::run, lines 127-131.
ModuleStack(caller) ==
    Prepend(Prepend(Prepend(Prepend(caller, "edge_coverage"), "input_injector"),
                    "reg_reset"), "snapshot")

\* pre_exec_all walks the tuple from its head; a module that panics keeps the
\* ones behind it from running.
RECURSIVE UpTo(_, _)
UpTo(mods, m) ==
    IF mods = <<>> THEN <<>>
    ELSE IF Head(mods) = m THEN <<m>>
    ELSE <<Head(mods)>> \o UpTo(Tail(mods), m)

\* StdFuzzer::new(scheduler, feedback, objective): a solution when the
\* objective is interesting, else a corpus entry when the feedback is.
Classify(kind, cov, md) ==
    IF Objective(kind, cov) THEN "Solution"
    ELSE IF Feedback(cov, md) THEN "Corpus"
    ELSE "Discard"

\* ------------------------------------------------------- input_injector.rs
\* Variant: the staged buffer is extended without being cleared first.
PreExecInputNoClear(tb, old) ==
    old \o (IF Len(tb) > max_size THEN Take(tb, max_size) ELSE tb)

\* Variant: the candidate is staged whole, without truncation.
PreExecInputNoTruncate(tb, old) == tb

\* pre_exec, lines 71-80: the bytes the staged buffer holds afterwards.
PreExecInput(tb, old) ==
    IF Len(tb) > max_size
    THEN LET t == Truncate(tb, max_size)
         IN IF t.ok THEN t.val ELSE old
    ELSE tb

\* pre_exec, lines 72-76: the early return taken when truncation fails.
PreExecReturnsEarly(tb) == Len(tb) > max_size /\ ~Truncate(tb, max_size).ok

\* pre_exec, lines 83-87: the slice handed to write_mem.
WrittenBuf(inp) == IF Len(inp) > max_size THEN Take(inp, max_size) ELSE inp

\* Variant: the address is dropped and the field keeps its default.
SetInputAddrDefault(addr) == 0

\* set_input_addr, lines 26-28: the value the field takes.
SetInputAddr(addr) == addr

\* Variant: a failed write is passed over and the call carries on.
WriteFailedIgnored == "guest"

\* pre_exec, line 88, and syscall_hooks, line 145: write_mem(..).unwrap()
\* panics on Err.
WriteFailed == "panicked"

\* Variant: a read drains the whole staged buffer whatever length it asks for.
ReadOffsetAll(a2, input_len) == input_len

\* Variant: the requested length is not capped by what is staged.
ReadOffsetUncapped(a2, input_len) == a2

\* syscall_hooks, lines 131-138: how many bytes a read drains.
ReadOffset(a2, input_len) ==
    IF a2 = 0 THEN 0
    ELSE IF a2 <= input_len THEN a2
    ELSE input_len

\* syscall_hooks, lines 140-143: input.drain(..offset) panics when offset is
\* past the end; otherwise it removes and yields the first offset bytes.
DrainOk(inp, offset) == offset <= Len(inp)
\* Variant: the bytes are taken from the back of the staged buffer.
DrainedFromBack(inp, offset) == SubSeq(inp, Len(inp) - offset + 1, Len(inp))
Drained(inp, offset) == Take(inp, offset)
\* Variant: the bytes handed out stay in the staged buffer.
RemainingKept(inp, offset) == inp
Remaining(inp, offset) == Drop(inp, offset)

\* Variant: the drained bytes are written to the input region.
ReadDestInputAddr(a1, inj_addr) == inj_addr

\* syscall_hooks, line 145: where the drained bytes are written.
ReadDest(a1, inj_addr) == a1

\* syscall_hooks, lines 127-129, 153-155, 163-165:
\* emulator_modules.get_mut::<InputInjectorModule>() finds the module when
\* it is in the emulator's tuple; expect panics otherwise.
ModuleFound(mods) == \E i \in 1..Len(mods) : mods[i] = "input_injector"

\* syscall_hooks, line 179: the hook is handed the engine state in runs an
\* executor started, and none in the startup run of Harness::init.
StatePresent(p) == p = "guest"

\* syscall_hooks, lines 180-183: get_mut::<ExecMeta>() finds the record when
\* the state holds one; expect panics otherwise.
MetaFound(md) == md # <<>>

\* Variant: private mappings that are executable or anonymous are answered.
MmapInterceptedPrivate(a2, a3) ==
    /\ (a3 \div 2) % 2 = 1
    /\ (a2 \div 4) % 2 = 1 \/ (a3 \div 32) % 2 = 1

\* syscall_hooks, line 151: the mmap calls that are answered by the hook.
MmapIntercepted(a2, a3) == a2 = 1 /\ a3 = 1

\* Variant: the address the caller asked for (null) is returned.
MmapRetHint(inj_addr) == 0

\* syscall_hooks, lines 152-157: the value an answered mmap returns.
MmapRet(inj_addr) == inj_addr

\* Variant: every munmap is answered by the hook.
MunmapInterceptedAll(a0, inj_addr) == TRUE

\* syscall_hooks, line 168: the munmap calls that are answered by the hook.
MunmapIntercepted(a0, inj_addr) == a0 = inj_addr

\* Variant: the hook answers 0 instead of passing the syscall on.
OtherResultZero(sys) == HookSome(sys, 0, 0, 0, 0)

\* syscall_hooks, lines 188-190: the result for every other syscall.
OtherResult(sys) == HookNone(sys, 0, 0, 0)

\* Variant: the exit branch leaves the flag alone.
ExitMetaUnset(m) == m

\* syscall_hooks, line 184: the record after the exit branch.
ExitMeta(m) == [m EXCEPT !.ignore = TRUE]

\* Variant: the exit branch returns into the guest instead of aborting.
ExitOutcomeReturns == "guest"

\* syscall_hooks, line 186: abort() ends the worker process; the hook never
\* returns.
ExitOutcome == "aborted"

\* Variant: a record the state already holds is kept.
FirstExecMetaKeep(md) == IF md # <<>> THEN md ELSE <<ExecMetaNew>>

\* first_exec, lines 56-57: add_metadata stores a new record, replacing one
\* the state already holds.
FirstExecMeta(md) == <<ExecMetaNew>>

\* Variant: first_exec installs the hook and attaches nothing.
FirstExecAttachesNever(installed) == FALSE

\* Variant: the record is attached only when the hook could be installed.
FirstExecAttachesIfInstalled(installed) == installed

\* first_exec, lines 46-57: the record is attached whether or not the hook
\* could be installed; a failure is logged and nothing else.
FirstExecAttaches(installed) == TRUE

\* Variant: the hook and the record are set up on every execution.
FirstExecAlways(done) == TRUE

\* first_exec is called by the emulator only while no execution has started
\* in this process.
FirstExecDue(done) == ~done

\* ---------------------------------------------------------------- harness.rs
\* QemuExitReason::Breakpoint(_): the stop reasons naming a breakpoint.
IsBreakpoint(stop) == stop \in {"start_pc", "end_pc"}

\* Variant: the startup run may stop for any reason.
InitStopOkAny(stop) == TRUE

\* Harness::init, lines 72-82: the stops of the startup run that do not panic.
InitStopOk(stop) == IsBreakpoint(stop)

\* Variant: the entry breakpoint is left armed.
InitBreakpointsKept(bps) == bps

\* Harness::init, line 84: the breakpoints armed after the startup run.
InitBreakpoints(bps) == bps \ {"start_pc"}

\* Variant: a guest that ran to its end counts as a normal completion too.
RunStopOkEnd(stop) == IsBreakpoint(stop) \/ stop = "End"

\* Harness::run, lines 111-121: the stops for which run returns.
RunStopOk(stop) == IsBreakpoint(stop)

\* Variant: the hook is there as soon as the module has been constructed.
InitialHooksOne == Len(<<"syscall_hooks">>)

\* InputInjectorModule::new, lines 18-24, installs no hook.
InitialHooks == 0

\* --------------------------------------------------------------------- Init
FreshMem == [a \in Addr |-> 0]

\* Nothing observed yet: no stop reason, no ExitKind, the flag not read, no
\* module's pre_exec run.
NoRun == [stop |-> "none", kind |-> "none", flag_read |-> FALSE, ran |-> <<>>]

Init ==
    /\ pc = "boot"
    /\ breakpoints = {}
    /\ h_input_addr = 0
    /\ input = <<>>
    /\ input_addr = 0
    /\ hooks = InitialHooks
    /\ first_done = FALSE
    /\ metadata = <<>>
    /\ mem = FreshMem
    /\ mapped = GuestBuf
    /\ cur = <<>>
    /\ stale = FALSE
    /\ delivered = <<>>
    /\ last = NoSyscall
    /\ verdict = "none"
    /\ inherited = FALSE
    /\ modules = <<>>
    /\ obs = NoRun

\* --------------------------------------------------------------- actions
\* The emulator is running the guest: in the startup run of Harness::init
\* (harness.rs:72) or in a run of Harness::run (harness.rs:111).  A syscall
\* of the guest is handed to the pre-syscall hooks that exist at that time.
GuestRuns == pc \in {"startup", "guest"}

\* Instance::run, lines 117-131: the module tuple is composed around the
\* modules the caller supplied.
BuildModules(caller) ==
    /\ pc = "boot"
    /\ modules' = ModuleStack(caller)
    /\ pc' = "built"
    /\ UNCHANGED <<breakpoints, h_input_addr, input, input_addr, hooks,
                   first_done, metadata, mem, mapped, cur, stale, delivered,
                   last, verdict, inherited, obs>>

\* Harness::init, lines 68-69: arm both breakpoints, then resume the guest.
HarnessArm ==
    /\ pc = "built"
    /\ breakpoints' = breakpoints \cup {"start_pc", "end_pc"}
    /\ pc' = "startup"
    /\ UNCHANGED <<h_input_addr, input, input_addr, hooks, first_done, metadata,
                   mem, mapped, cur, stale, delivered, last, verdict, inherited,
                   modules, obs>>

\* Harness::init, lines 72-98, and the expect at instance.rs:143: the startup
\* run stops (at a breakpoint only if that breakpoint is armed); only a
\* breakpoint stop followed by a successful map_private yields a Harness.
\* read_reg of the program counter is taken to succeed.
HarnessInit(stop, map_ok) ==
    /\ pc = "startup"
    /\ IsBreakpoint(stop) => stop \in breakpoints
    /\ obs' = [obs EXCEPT !.stop = stop]
    /\ IF ~InitStopOk(stop)
       THEN /\ pc' = "panicked"
            /\ UNCHANGED <<breakpoints, h_input_addr, mapped>>
       ELSE /\ breakpoints' = InitBreakpoints(breakpoints)
            /\ IF map_ok
               THEN /\ h_input_addr' = RegionBase
                    /\ mapped' = mapped \cup Region(RegionBase)
                    /\ pc' = "inited"
               ELSE /\ pc' = "panicked"
                    /\ UNCHANGED <<h_input_addr, mapped>>
    /\ UNCHANGED <<input, input_addr, hooks, first_done, metadata, mem, cur,
                   stale, delivered, last, verdict, inherited, modules>>

\* Instance::run, lines 166-170: hand the address to the injector.
set_input_addr ==
    /\ pc = "inited"
    /\ input_addr' = SetInputAddr(h_input_addr)
    /\ pc' = "ready"
    /\ UNCHANGED <<breakpoints, h_input_addr, input, hooks, first_done, metadata,
                   mem, mapped, cur, stale, delivered, last, verdict, inherited,
                   modules, obs>>

\* InputInjectorModule::first_exec, lines 38-58: runs once per process,
\* when the executor is first asked to run a candidate.
first_exec(installed) ==
    /\ pc = "ready" /\ FirstExecDue(first_done)
    /\ hooks' = IF installed THEN hooks + 1 ELSE hooks
    /\ metadata' = IF FirstExecAttaches(installed) THEN FirstExecMeta(metadata)
                    ELSE metadata
    /\ first_done' = TRUE
    /\ UNCHANGED <<pc, breakpoints, h_input_addr, input, input_addr, mem, mapped,
                   cur, stale, delivered, last, verdict, inherited, modules, obs>>

\* InputInjectorModule::pre_exec, lines 60-89, called with the candidate the
\* engine hands to the executor, in its turn among the modules' pre_exec
\* calls, followed by Harness::run resuming the guest (harness.rs:111).
pre_exec(_input) ==
    /\ pc = "ready" /\ first_done
    /\ cur' = _input
    /\ stale' = (input # <<>>)
    /\ delivered' = <<>>
    /\ last' = NoSyscall
    /\ verdict' = "none"
    /\ IF PreExecReturnsEarly(_input)
       THEN /\ UNCHANGED <<input, mem>>
            /\ pc' = "guest"
       ELSE LET staged == PreExecInput(_input, input)
                buf == WrittenBuf(staged)
            IN /\ input' = staged
               /\ IF WriteOk(mapped, input_addr, buf)
                  THEN /\ mem' = WriteMem(mem, input_addr, buf)
                       /\ pc' = "guest"
                  ELSE /\ mem' = mem
                       /\ pc' = WriteFailed
    /\ obs' = [NoRun EXCEPT !.ran = IF pc' = "guest" THEN modules
                                    ELSE UpTo(modules, "input_injector")]
    /\ UNCHANGED <<breakpoints, h_input_addr, input_addr, hooks, first_done,
                   metadata, mapped, inherited, modules>>

\* syscall_hooks, lines 125-149: read.
ReadHook(fd, a1, a2) ==
    /\ GuestRuns /\ hooks > 0
    /\ LET offset == ReadOffset(a2, Len(input))
       IN IF ~ModuleFound(modules) \/ ~DrainOk(input, offset)
          THEN /\ pc' = "panicked"
               /\ last' = HookDiverged("read", a1, a2, 0)
               /\ UNCHANGED <<input, mem, delivered>>
          ELSE LET drained == Drained(input, offset)
                   dst == ReadDest(a1, input_addr)
               IN /\ input' = Remaining(input, offset)
                  /\ IF WriteOk(mapped, dst, drained)
                     THEN /\ mem' = WriteMem(mem, dst, drained)
                          /\ delivered' = delivered \o drained
                          /\ last' = HookSome("read", a1, a2, 0, Len(drained))
                          /\ pc' = pc
                     ELSE /\ mem' = mem
                          /\ delivered' = delivered
                          /\ last' = HookDiverged("read", a1, a2, 0)
                          /\ pc' = WriteFailed
    /\ UNCHANGED <<breakpoints, h_input_addr, input_addr, hooks, first_done,
                   metadata, mapped, cur, stale, verdict, inherited, modules,
                   obs>>

\* syscall_hooks, lines 150-161: mmap.  The hook looks at prot (_a2) and
\* flags (_a3) only.
MmapHook(a2, a3) ==
    /\ GuestRuns /\ hooks > 0
    /\ IF MmapIntercepted(a2, a3)
       THEN IF ModuleFound(modules)
            THEN /\ last' = HookSome("mmap", 0, a2, a3, MmapRet(input_addr))
                 /\ pc' = pc
            ELSE /\ last' = HookDiverged("mmap", 0, a2, a3)
                 /\ pc' = "panicked"
       ELSE /\ last' = HookNone("mmap", 0, a2, a3)
            /\ pc' = pc
    /\ UNCHANGED <<breakpoints, h_input_addr, input, input_addr, hooks,
                   first_done, metadata, mem, mapped, cur, stale, delivered,
                   verdict, inherited, modules, obs>>

\* syscall_hooks, lines 162-174: munmap (a0 is recorded in the a1 slot).
MunmapHook(a0) ==
    /\ GuestRuns /\ hooks > 0
    /\ IF ~ModuleFound(modules)
       THEN /\ last' = HookDiverged("munmap", a0, 0, 0)
            /\ pc' = "panicked"
       ELSE /\ last' = IF MunmapIntercepted(a0, input_addr)
                       THEN HookSome("munmap", a0, 0, 0, 0)
                       ELSE HookNone("munmap", a0, 0, 0)
            /\ pc' = pc
    /\ UNCHANGED <<breakpoints, h_input_addr, input, input_addr, hooks,
                   first_done, metadata, mem, mapped, cur, stale, delivered,
                   verdict, inherited, modules, obs>>

\* syscall_hooks, lines 175-187: exit and exit_group.  abort() ends the
\* worker process; the in-process crash handler classifies the run as a crash
\* (see the comment at line 178) before the process is gone.  a0 is the exit
\* code, which the hook does not look at.
ExitHook(sys, a0, cov) ==
    /\ GuestRuns /\ hooks > 0
    /\ sys \in Exits
    /\ IF ~StatePresent(pc) \/ ~MetaFound(metadata)
       THEN /\ pc' = "panicked"
            /\ UNCHANGED <<metadata, verdict, obs>>
       ELSE /\ metadata' = <<ExitMeta(metadata[1])>>
            /\ verdict' = Classify("Crash", cov, metadata')
            /\ obs' = [obs EXCEPT !.kind = "Crash",
                                  !.flag_read = FlagRead("Crash", cov)]
            /\ pc' = ExitOutcome
    /\ last' = HookDiverged(sys, a0, 0, 0)
    /\ UNCHANGED <<breakpoints, h_input_addr, input, input_addr, hooks,
                   first_done, mem, mapped, cur, stale, delivered, inherited,
                   modules>>

\* syscall_hooks, lines 188-190: every other syscall.
OtherHook(sys) ==
    /\ GuestRuns /\ hooks > 0
    /\ sys \in Others
    /\ last' = OtherResult(sys)
    /\ UNCHANGED <<pc, breakpoints, h_input_addr, input, input_addr, hooks,
                   first_done, metadata, mem, mapped, cur, stale, delivered,
                   verdict, inherited, modules, obs>>

\* No hook is installed (not yet, in the startup run, or because first_exec
\* could not install it, lines 52-54): the guest's syscalls are executed by
\* the emulator itself; a real exit ends the process.
RealSyscall(sys) ==
    /\ GuestRuns /\ hooks = 0
    /\ last' = [NoSyscall EXCEPT !.sys = sys, !.res = "real"]
    /\ pc' = IF sys \in Exits THEN "exited" ELSE pc
    /\ UNCHANGED <<breakpoints, h_input_addr, input, input_addr, hooks,
                   first_done, metadata, mem, mapped, cur, stale, delivered,
                   verdict, inherited, modules, obs>>

\* Harness::run, lines 111-124: the guest stops (at a breakpoint only if that
\* breakpoint is armed).  A breakpoint stop reports ExitKind::Ok, which the
\* engine then classifies; anything else panics.  read_reg of the program
\* counter is taken to succeed.  The record of the finished execution (cur,
\* delivered, stale, last) is dropped when the executor is left.
HarnessRun(stop, cov) ==
    /\ pc = "guest"
    /\ IsBreakpoint(stop) => stop \in breakpoints
    /\ IF RunStopOk(stop)
       THEN /\ verdict' = Classify("Ok", cov, metadata)
            /\ obs' = [obs EXCEPT !.stop = stop, !.kind = "Ok",
                                  !.flag_read = FlagRead("Ok", cov)]
            /\ pc' = "ready"
       ELSE /\ verdict' = verdict
            /\ obs' = [obs EXCEPT !.stop = stop]
            /\ pc' = "panicked"
    /\ cur' = <<>> /\ delivered' = <<>> /\ stale' = FALSE /\ last' = NoSyscall
    /\ UNCHANGED <<breakpoints, h_input_addr, input, input_addr, hooks,
                   first_done, metadata, mem, mapped, inherited, modules>>

\* fuzzer.rs, lines 166-177, and instance.rs:211-213: the launcher starts a
\* new worker process after the old one died; the engine state (and with it
\* the metadata) is handed over, everything else starts afresh.
Respawn ==
    /\ pc \in {"aborted", "panicked", "exited"}
    /\ pc' = "boot"
    /\ breakpoints' = {}
    /\ h_input_addr' = 0
    /\ input' = <<>>
    /\ input_addr' = 0
    /\ hooks' = InitialHooks
    /\ first_done' = FALSE
    /\ mem' = FreshMem
    /\ mapped' = GuestBuf
    /\ cur' = <<>>
    /\ stale' = FALSE
    /\ delivered' = <<>>
    /\ last' = NoSyscall
    /\ verdict' = "none"
    /\ inherited' = (metadata # <<>> /\ metadata[1].ignore)
    /\ modules' = <<>>
    /\ obs' = NoRun
    /\ UNCHANGED metadata

\* QemuExitReason: a breakpoint (named by its address), the end of the guest,
\* a synchronous exit.
StopReasons == {"start_pc", "end_pc", "End", "SyncExit"}

Next ==
    \/ \E caller \in Callers : BuildModules(caller)
    \/ HarnessArm
    \/ \E stop \in StopReasons, ok \in BOOLEAN : HarnessInit(stop, ok)
    \/ set_input_addr
    \/ \E installed \in BOOLEAN : first_exec(installed)
    \/ \E c \in Candidates : pre_exec(c)
    \/ \E fd \in Fds, a1 \in ReadDests, a2 \in ReadLens : ReadHook(fd, a1, a2)
    \/ \E a2 \in Prots, a3 \in MapFlags : MmapHook(a2, a3)
    \/ \E a0 \in Addr : MunmapHook(a0)
    \/ \E sys \in Exits, a0 \in ExitCodes, cov \in BOOLEAN : ExitHook(sys, a0, cov)
    \/ \E sys \in Others : OtherHook(sys)
    \/ \E sys \in SysNums : RealSyscall(sys)
    \/ \E stop \in StopReasons, cov \in BOOLEAN : HarnessRun(stop, cov)
    \/ Respawn

Spec == Init /\ [][Next]_vars

\* ===================================================================== claims
Ignore == metadata # <<>> /\ metadata[1].ignore
Truncated(c) == Take(c, Min(Len(c), max_size))

\* A step in which the read hook ran and returned its result to the emulator.
ReadStep ==
    /\ pc = "guest" /\ pc' = "guest"
    /\ last'.sys = "read" /\ last'.res = "Some"

\* A step in which the read hook ran, whether it returned or panicked.
ReadAttempt ==
    /\ pc = "guest" /\ hooks > 0 /\ last'.sys = "read"
    /\ \/ pc' = "guest" /\ last'.res = "Some"
       \/ pc' = "panicked" /\ last'.res = "pending"

\* A step in which pre_exec ran (the only way out of "ready").
PreExecStep == pc = "ready" /\ pc' # "ready"

\* The cells a returned read wrote: its destination, for as many bytes as it
\* returned.
Written(l) == {a \in Addr : a >= l.a1 /\ a < l.a1 + l.val}

\* C1: an intercepted read that asks for n bytes while r bytes are staged
\* returns min(n, r), removes exactly those bytes from the front of the staged
\* buffer and writes them, in order, at its destination and nowhere else; with
\* the hook installed a read is never left to the emulator.  (What the hook
\* returns, when it returns: a destination that is not writable makes it
\* panic.)
C1_ReadContract ==
    [][/\ ReadStep =>
            LET k == Min(last'.a2, Len(input))
            IN /\ last'.val = k
               /\ input' = Drop(input, k)
               /\ delivered' = delivered \o Take(input, k)
               /\ \A i \in 1..k : mem'[last'.a1 + i - 1] = input[i]
               /\ \A a \in Addr \ Written(last') : mem'[a] = mem[a]
       /\ (pc = "guest" /\ hooks > 0 /\ last'.sys = "read")
            => last'.res \in {"Some", "pending"}]_vars

\* C1 witness: a read of fewer bytes than were staged has returned.
C1_Witness ==
    /\ pc = "guest" /\ last.sys = "read" /\ last.res = "Some"
    /\ last.a2 > 0 /\ last.val = last.a2 /\ input # <<>>

\* C2: every pre_exec leaves the staged buffer equal to the candidate, cut to
\* max_size when longer, whatever was left unread before; and what reads hand
\* out during an execution, followed by what is still staged, is that
\* candidate, so no byte of an earlier candidate is served.
C2_StagingReplaces ==
    [][/\ PreExecStep => (pc' = "guest" /\ input' = Truncated(cur'))
       /\ pc' = "guest" => delivered' \o input' = Truncated(cur')]_vars

\* C2 witness: a staging that found unread bytes of the previous execution.
C2_Witness ==
    /\ pc = "guest" /\ stale /\ last = NoSyscall
    /\ input = cur /\ Len(cur) = 1

\* C3: once the hook has handled exit or exit_group, whatever the exit code,
\* the ignore flag is set and control is not in the guest: the hook has not
\* returned a result.
C3_ExitSetsIgnore ==
    (last.sys \in Exits /\ last.res # "real")
        => (Ignore /\ pc # "guest" /\ last.res = "pending")

\* C3 witness: exit_group with a non-zero code has been intercepted.
C3_Witness ==
    last.sys = "exit_group" /\ last.a1 = 1 /\ last.res = "pending" /\ Ignore

\* C4 as stated: after an intercepted exit the worker process is still alive.
C4_WorkerSurvivesExit ==
    (last.sys \in Exits /\ last.res # "real")
        => pc \notin {"aborted", "panicked", "exited"}

\* C4 as amended: an intercepted exit never reaches the real exit syscall and
\* never returns to the guest, but it ends the worker process (abort): that
\* process starts no further execution, the next one is started by a new
\* worker process that goes through Harness::init again.
C4_ExitAbortsWorker ==
    [][/\ (last'.sys \in Exits /\ last'.res # "real")
            => (pc' = "aborted" /\ last'.res = "pending")
       /\ pc = "aborted"
            => (pc' = "boot" /\ hooks' = 0 /\ ~first_done' /\ input' = <<>>)]_vars

\* C4 witness: the worker process has aborted in the exit branch.
C4_Witness == pc = "aborted" /\ last.sys = "exit" /\ hooks > 0

\* C5 as stated: an execution ended by the engineered exit (ignore set) is
\* never classified as a solution.
C5_ExitNotStoredAsCrash ==
    (pc = "aborted" /\ Ignore) => verdict # "Solution"

\* C6: the flag is clear whenever the guest runs and has not exited, and when
\* an execution has been classified the flag is set exactly if the guest
\* issued exit or exit_group in that execution: a flag set by an earlier
\* execution is not seen by the classification of a later one.
C6_IgnorePerExecution ==
    /\ (pc = "guest" /\ last.sys \notin Exits) => ~Ignore
    /\ verdict # "none" => (Ignore <=> last.sys \in Exits)

\* C6 witness: a worker process that inherited a set flag has run an
\* execution without exit in which a read delivered a byte, and the execution
\* was classified with the flag clear.
C6_Witness ==
    /\ inherited /\ pc = "ready" /\ verdict # "none" /\ hooks > 0
    /\ mem[1] = 1 /\ ~Ignore

\* C7: a candidate longer than max_size is staged as exactly its first
\* max_size bytes; those bytes are what is written at input_addr, nothing is
\* written outside the region, and reads never hand out more than them.
C7_Truncation ==
    [][/\ (PreExecStep /\ Len(cur') > max_size) =>
            /\ Len(input') = max_size
            /\ input' = Take(cur', max_size)
            /\ \A i \in 1..max_size : mem'[input_addr + i - 1] = cur'[i]
            /\ \A a \in Addr \ Region(input_addr) : mem'[a] = mem[a]
       /\ (pc' = "guest" /\ Len(cur') > max_size) =>
            /\ delivered' \o input' = Take(cur', max_size)
            /\ Len(delivered') <= max_size]_vars

\* C7 witness: an over-long candidate has been staged and read to the end.
C7_Witness ==
    /\ pc = "guest" /\ Len(cur) > max_size
    /\ input = <<>> /\ Len(delivered) = max_size
    /\ cur[MaxLen] # cur[max_size]

\* C8: pre_exec leaves the staged bytes at input_addr, and afterwards the
\* region changes only by a read whose destination overlaps it: every other
\* step of the execution, draining reads included, leaves it as it is.
C8_MirrorIndependent ==
    [][/\ PreExecStep =>
            \A i \in 1..Len(input') : mem'[input_addr + i - 1] = input'[i]
       /\ (pc = "guest" /\ pc' = "guest"
            /\ ~(last'.sys = "read" /\ Written(last') \cap Region(input_addr) # {}))
            => \A a \in Region(input_addr) : mem'[a] = mem[a]]_vars

\* C8 witness: the staged buffer was drained by reads into the guest's own
\* buffer and the region still holds the whole candidate.
C8_Witness ==
    /\ pc = "guest" /\ input = <<>> /\ delivered = cur /\ Len(cur) = max_size
    /\ cur[1] # cur[2]
    /\ last.sys = "read" /\ last.a1 = 1 /\ last.val = 1
    /\ mem[1] = cur[max_size]
    /\ \A i \in 1..Len(cur) : mem[input_addr + i - 1] = cur[i]

\* C9: a read of length zero, and any read issued when nothing is staged,
\* returns 0, removes nothing and leaves the worker running, at any
\* destination.
C9_EmptyReads ==
    [][(ReadAttempt /\ (last'.a2 = 0 \/ input = <<>>)) =>
            /\ pc' = "guest"
            /\ last'.res = "Some" /\ last'.val = 0
            /\ input' = input
            /\ delivered' = delivered]_vars

\* C9 witness: a read at the null cell after the buffer was drained returned 0.
C9_Witness ==
    /\ pc = "guest" /\ delivered # <<>> /\ input = <<>>
    /\ last.sys = "read" /\ last.a1 = 0 /\ last.a2 > 0
    /\ last.res = "Some" /\ last.val = 0

\* C10: for a candidate no longer than max_size, the first read after
\* staging, of length L at most the candidate's length, returns L and hands
\* out the candidate's first L bytes; a later read that asks for at least what
\* is left returns the rest of the candidate.
C10_ReadSequence ==
    [][(ReadStep /\ Len(cur) <= max_size) =>
            /\ (last = NoSyscall /\ last'.a2 <= Len(cur)) =>
                  /\ last'.val = last'.a2
                  /\ delivered' = Take(cur, last'.a2)
                  /\ \A i \in 1..last'.a2 : mem'[last'.a1 + i - 1] = cur[i]
            /\ (last'.a2 >= Len(cur) - Len(delivered)) =>
                  /\ last'.val = Len(cur) - Len(delivered)
                  /\ delivered' = cur
                  /\ input' = <<>>]_vars

\* C10 witness: after a first read of one byte, a read asking for more than
\* is left has returned the rest.
C10_Witness ==
    /\ pc = "guest" /\ Len(cur) = max_size /\ cur[1] # cur[max_size]
    /\ delivered = cur /\ input = <<>>
    /\ last.sys = "read" /\ last.a2 > Len(cur) /\ last.val = Len(cur) - 1

\* A step in which the hook handled an mmap / a munmap / a syscall it has no
\* branch for, and returned to the emulator.
MmapStep == pc = "guest" /\ pc' = "guest" /\ hooks > 0 /\ last'.sys = "mmap"
MunmapStep == pc = "guest" /\ pc' = "guest" /\ hooks > 0 /\ last'.sys = "munmap"
OtherStep == pc = "guest" /\ pc' = "guest" /\ hooks > 0 /\ last'.sys \in Others

\* C11: an mmap of the recognised pattern (prot 1, flags 1) is answered by
\* the hook with the address Harness::init allocated and the injector was
\* given, the same on every call of every execution; nothing is mapped, and
\* neither the staged buffer nor guest memory changes.
C11_MmapReturnsInputAddr ==
    [][(MmapStep /\ last'.a2 = 1 /\ last'.a3 = 1) =>
            /\ last'.res = "Some"
            /\ last'.val = h_input_addr /\ last'.val = RegionBase
            /\ Region(last'.val) \subseteq mapped
            /\ UNCHANGED <<input, mem, mapped, input_addr, h_input_addr>>]_vars

C11_Witness ==
    /\ pc = "guest" /\ last.sys = "mmap" /\ last.res = "Some"
    /\ last.val = RegionBase /\ input # <<>> /\ delivered # <<>>

\* A private mapping (MAP_PRIVATE set) that is executable (PROT_EXEC set) or
\* anonymous (MAP_ANONYMOUS set).
PrivateExecOrAnon(prot, flags) ==
    /\ (flags \div 2) % 2 = 1
    /\ (prot \div 4) % 2 = 1 \/ (flags \div 32) % 2 = 1

\* C12 as stated: an mmap the hook sees is answered by it exactly when it asks
\* for a private mapping that is executable or anonymous.
C12_InterceptsPrivateMappings ==
    (last.sys = "mmap" /\ last.res \in {"Some", "None"}) =>
        (last.res = "Some" <=> PrivateExecOrAnon(last.a2, last.a3))

\* C12, amended: an mmap the hook sees is answered by it exactly when prot is
\* 1 (PROT_READ alone) and flags is 1 (MAP_SHARED alone); every other mmap is
\* passed on with no result.
C12_InterceptsReadOnlyShared ==
    (last.sys = "mmap" /\ last.res # "real") =>
        /\ last.res \in {"Some", "None"}
        /\ last.res = "Some" <=> (last.a2 = 1 /\ last.a3 = 1)

C12_Witness ==
    /\ pc = "guest" /\ last.sys = "mmap" /\ last.res = "None"
    /\ PrivateExecOrAnon(last.a2, last.a3)

\* C13: a munmap of the input address is answered with 0 by the hook, so the
\* region stays mapped with its content and the staged buffer is untouched;
\* a read that follows is served from that buffer as ever; a munmap of any
\* other address is passed on with no result (what the emulator's own munmap
\* then does to the guest is outside the hook).
C13_MunmapInputAddrIsNoOp ==
    [][/\ MunmapStep =>
            /\ last'.a1 = h_input_addr =>
                    /\ last'.res = "Some" /\ last'.val = 0
                    /\ Region(h_input_addr) \subseteq mapped'
                    /\ UNCHANGED <<mem, mapped>>
            /\ last'.a1 # h_input_addr => last'.res = "None"
            /\ UNCHANGED <<input, input_addr, delivered, metadata>>
       /\ (ReadStep /\ last.sys = "munmap" /\ last.res = "Some") =>
            /\ last'.val = Min(last'.a2, Len(input))
            /\ delivered' = delivered \o Take(input, last'.val)]_vars

C13_Witness ==
    /\ pc = "guest" /\ last.sys = "munmap" /\ last.res = "Some"
    /\ last.a1 = input_addr /\ input # <<>>
    /\ Region(input_addr) \subseteq mapped

\* C14: a syscall other than read, mmap, munmap, exit and exit_group gets no
\* result from the hook, and the hook changes neither the staged buffer, nor
\* the injector's input address, nor the ignore flag, nor guest memory.
C14_OtherSyscallsPassThrough ==
    [][OtherStep =>
            /\ last'.res = "None"
            /\ UNCHANGED <<input, input_addr, metadata, mem, mapped, delivered>>]_vars

C14_Witness ==
    /\ pc = "guest" /\ last.sys \in Others /\ last.res = "None"
    /\ input # <<>> /\ delivered # <<>> /\ ~Ignore

\* C15: while the guest runs, the injector's staging for the current
\* candidate is complete (the modules' pre_exec calls have run, the bytes
\* delivered so far followed by the bytes still staged are the candidate,
\* cut to capacity) and the run has not been evaluated; the ignore flag is
\* read only in the evaluation of a run that has returned normally.
C15_StageRunThenReadFlag ==
    /\ pc = "guest" =>
            /\ first_done
            /\ \E i \in 1..Len(obs.ran) : obs.ran[i] = "input_injector"
            /\ delivered \o input = Truncated(cur)
            /\ obs.kind = "none" /\ ~obs.flag_read /\ verdict = "none"
    /\ obs.flag_read =>
            /\ pc = "ready"
            /\ obs.kind = "Ok" /\ IsBreakpoint(obs.stop)

C15_Witness ==
    /\ pc = "ready" /\ obs.flag_read /\ verdict = "Corpus"
    /\ mem[1] = 1 /\ input # <<>>

\* Module a ran before module b.
Before(r, a, b) ==
    \E i \in 1..Len(r) : \E j \in (i + 1)..Len(r) : r[i] = a /\ r[j] = b

OwnModules == {"snapshot", "reg_reset", "input_injector", "edge_coverage"}

\* C16: in every execution the modules' pre_exec calls have run in the one
\* order of the composed tuple: snapshot and register reset before the
\* injector, the injector before edge coverage and before every module the
\* caller supplied.
C16_ModuleOrder ==
    pc = "guest" =>
        /\ obs.ran = modules
        /\ Before(obs.ran, "snapshot", "input_injector")
        /\ Before(obs.ran, "reg_reset", "input_injector")
        /\ Before(obs.ran, "input_injector", "edge_coverage")
        /\ \A i \in 1..Len(obs.ran) :
                obs.ran[i] \notin OwnModules
                    => Before(obs.ran, "input_injector", obs.ran[i])

C16_Witness ==
    /\ pc = "guest" /\ stale
    /\ Len(obs.ran) = 5 /\ obs.ran[5] = "caller" /\ obs.ran[3] = "input_injector"

\* C17: in one worker process the hook is installed at most once and the
\* ExecMeta record attached once, both by first_exec, before the guest is
\* first resumed; from then on no step of that process installs a hook or
\* puts a new record in place (the exit branch only sets the flag of the
\* record that is there).
C17_FirstExecOnce ==
    [][/\ hooks' <= 1
       /\ pc' = "guest" => (first_done' /\ Len(metadata') = 1)
       /\ (hooks' # hooks /\ pc' # "boot") =>
            /\ ~first_done /\ first_done'
            /\ pc = "ready" /\ pc' = "ready"
            /\ metadata' = <<ExecMetaNew>>
       /\ (first_done /\ pc' # "boot") =>
            /\ first_done' /\ hooks' = hooks
            /\ \/ metadata' = metadata
               \/ last'.sys \in Exits /\ metadata' = <<ExitMeta(metadata[1])>>]_vars

C17_Witness ==
    /\ pc = "guest" /\ stale /\ hooks = 1 /\ first_done
    /\ metadata = <<ExecMetaNew>> /\ delivered # <<>>

\* C18: both breakpoints are armed when the startup run begins; a startup run
\* that stopped on a breakpoint leaves the entry breakpoint disarmed, and it
\* is armed again by no later step of the process; the end breakpoint is
\* armed in every per-execution run; only the startup run, of which a process
\* has one, can stop on the entry breakpoint.
C18_BreakpointLifecycle ==
    [][/\ pc' = "startup" =>
            (breakpoints' = {"start_pc", "end_pc"} /\ pc \in {"built", "startup"})
       /\ (pc = "startup" /\ pc' # "startup" /\ IsBreakpoint(obs'.stop)) =>
            "start_pc" \notin breakpoints'
       /\ pc' \in {"inited", "ready", "guest"} => breakpoints' = {"end_pc"}
       /\ ("start_pc" \in breakpoints' /\ "start_pc" \notin breakpoints) =>
            pc = "built"
       /\ (obs'.stop = "start_pc" /\ obs' # obs) => pc = "startup"
       /\ (pc = "guest" /\ pc' = "ready") => obs'.stop = "end_pc"]_vars

C18_Witness ==
    /\ pc = "ready" /\ obs.stop = "end_pc" /\ obs.kind = "Ok"
    /\ breakpoints = {"end_pc"} /\ input # <<>>

\* C19: the startup run ends in a Harness exactly when it stopped on a
\* breakpoint and map_private succeeded; otherwise the process panics (or is
\* ended by the guest's own exit) with no input address recorded in the
\* harness or the injector, and does nothing more.  The injector is given an address, and an execution is started, only
\* after a Harness was produced.
C19_InitFailsFatally ==
    [][/\ (pc = "startup" /\ pc' # "startup") =>
            /\ pc' = "inited" <=>
                    (IsBreakpoint(obs'.stop) /\ Region(RegionBase) \subseteq mapped')
            /\ pc' = "inited" => h_input_addr' = RegionBase
            /\ pc' # "inited" =>
                    /\ pc' \in {"panicked", "exited"}
                    /\ h_input_addr' = 0 /\ input_addr' = 0 /\ ~first_done'
                    /\ mapped' = mapped
       /\ pc \in {"panicked", "exited"} => pc' \in {pc, "boot"}
       /\ input_addr' # input_addr =>
            \/ pc = "inited" /\ input_addr' = h_input_addr /\ h_input_addr = RegionBase
            \/ pc' = "boot" /\ input_addr' = 0
       /\ (pc' = "guest" /\ pc # "guest") =>
            (pc = "ready" /\ input_addr = RegionBase /\ Region(RegionBase) \subseteq mapped)]_vars

C19_Witness ==
    /\ pc = "panicked" /\ obs.stop = "start_pc" /\ ~first_done
    /\ h_input_addr = 0 /\ input_addr = 0 /\ breakpoints = {"end_pc"}

\* C20: a per-execution run that stops returns ExitKind::Ok exactly when it
\* stopped on a breakpoint; on every other stop it returns nothing and the
\* process is gone; a run that returns never reports anything but Ok.
C20_RunOkOnlyOnBreakpoint ==
    [][/\ (pc = "guest" /\ obs'.stop # obs.stop) =>
            /\ pc' = "ready" <=> IsBreakpoint(obs'.stop)
            /\ pc' # "ready" =>
                    /\ pc' = "panicked"
                    /\ obs'.kind = "none"
       /\ (pc = "guest" /\ pc' = "ready") =>
            (obs'.kind = "Ok" /\ verdict' \in {"Corpus", "Discard"})
       /\ (pc = "panicked" /\ first_done) => pc' \in {"panicked", "boot"}]_vars

C20_Witness ==
    /\ pc = "panicked" /\ obs.stop = "End" /\ first_done
    /\ obs.kind = "none" /\ input # <<>>

\* The bytes a read of length n takes from the staged buffer.
ReadBytes(n) == Take(input, Min(n, Len(input)))

\* C21 as stated: a read whose write to the guest failed leaves the worker
\* process running, the failure having been returned as an error.
C21_WriteFailureReturned ==
    (last.sys = "read" /\ last.res = "pending") => pc # "panicked"

\* C21, amended: a guest-memory write that fails in the read hook or in
\* staging is not passed over, and is not returned either: the unwrap panics,
\* the hook hands no result to the emulator, guest memory is as before and
\* the worker process does nothing more.  A read panics for no other reason.
C21_WriteFailurePanics ==
    [][/\ (pc = "guest" /\ hooks > 0 /\ last'.sys = "read" /\ last' # last) =>
            /\ ~WriteOk(mapped, last'.a1, ReadBytes(last'.a2)) <=> pc' = "panicked"
            /\ pc' = "panicked" => (last'.res = "pending" /\ mem' = mem)
       /\ (PreExecStep /\ ~WriteOk(mapped, input_addr, input')) =>
            (pc' = "panicked" /\ mem' = mem)
       /\ (pc = "panicked" /\ last.sys = "read") => pc' \in {"panicked", "boot"}]_vars

C21_Witness ==
    /\ pc = "panicked" /\ last.sys = "read" /\ last.res = "pending"
    /\ last.a1 = 0 /\ last.a2 > 0 /\ delivered # <<>>

\* C22: the harness's address is set once, by a successful init, and the
\* injector's once, from it, before the first execution; neither changes
\* afterwards in the process; whenever a staging, an mmap or a munmap can
\* occur the two are equal and are not the default 0.
C22_InputAddrStable ==
    [][/\ h_input_addr' # h_input_addr =>
            \/ pc = "startup" /\ h_input_addr = 0 /\ h_input_addr' # 0
            \/ pc' = "boot"
       /\ input_addr' # input_addr =>
            \/ pc = "inited" /\ input_addr = 0 /\ ~first_done
            \/ pc' = "boot"
       /\ pc' \in {"ready", "guest"} =>
            (input_addr' = h_input_addr' /\ input_addr' # 0)
       /\ (MmapStep \/ MunmapStep \/ PreExecStep) =>
            (input_addr = h_input_addr /\ input_addr # 0
                /\ UNCHANGED <<input_addr, h_input_addr>>)]_vars

C22_Witness ==
    /\ pc = "guest" /\ stale /\ last.sys = "munmap" /\ last.res = "Some"
    /\ last.a1 = RegionBase /\ input_addr = RegionBase /\ h_input_addr = RegionBase

\* C23: while the guest runs, the staged buffer is what remains of the
\* candidate (cut to max_size) after the bytes delivered so far; the staged
\* buffer is changed by the read hook and by a staging only, and outside a
\* staging it never grows.
C23_StagedIsSuffix ==
    [][/\ pc' = "guest" =>
            /\ Len(delivered') <= Len(Truncated(cur'))
            /\ delivered' = Take(Truncated(cur'), Len(delivered'))
            /\ input' = Drop(Truncated(cur'), Len(delivered'))
       /\ input' # input =>
            \/ pc = "guest" /\ hooks > 0 /\ last'.sys = "read"
            \/ PreExecStep
            \/ pc' = "boot"
       /\ ~PreExecStep => Len(input') <= Len(input)]_vars

C23_Witness ==
    /\ pc = "guest" /\ Len(cur) = MaxLen
    /\ Len(delivered) = 1 /\ Len(input) = max_size - 1
    /\ last.sys = "read" /\ last.val = 1

\* C24 as stated: right after a staging the input region holds the staged
\* bytes, and behind them nothing but the zeroes of the fresh region: no byte
\* of an earlier, longer candidate is left.
C24_RegionCleanBeyondInput ==
    (pc = "guest" /\ last = NoSyscall) =>
        /\ \A i \in 1..Len(input) : mem[input_addr + i - 1] = input[i]
        /\ \A a \in Region(input_addr) : a >= input_addr + Len(input) => mem[a] = 0

\* C25: no hook exists before Harness::init has returned (a hook appears in
\* first_exec only), so a syscall of the guest during the startup run is
\* executed for real: it gets no result from the hook, takes no staged byte,
\* writes no candidate byte and leaves the ignore flag alone.
C25_StartupNotIntercepted ==
    [][/\ pc' \in {"boot", "built", "startup", "inited"} =>
            (hooks' = 0 /\ ~first_done')
       /\ hooks' > hooks => (pc = "ready" /\ h_input_addr # 0)
       /\ (pc = "startup" /\ last' # last) =>
            /\ last'.res = "real"
            /\ pc' = (IF last'.sys \in Exits THEN "exited" ELSE "startup")
            /\ UNCHANGED <<input, delivered, metadata, mem>>]_vars

C25_Witness ==
    /\ pc = "startup" /\ last.sys = "read" /\ last.res = "real"
    /\ metadata # <<>> /\ input = <<>>

\* C26: the staged buffer never holds more than max_size bytes, and a staging
\* writes no more bytes than the region the harness allocated holds
\* (MAX_INPUT_SIZE) and changes no cell outside that region.
C26_StagingWithinCapacity ==
    [][/\ Len(input') <= max_size
       /\ PreExecStep =>
            /\ Len(WrittenBuf(input')) <= MAX_INPUT_SIZE
            /\ input_addr + Len(input') <= h_input_addr + MAX_INPUT_SIZE
            /\ \A a \in Addr : mem'[a] # mem[a] => a \in Region(h_input_addr)]_vars

C26_Witness ==
    /\ pc = "guest" /\ last = NoSyscall /\ Len(cur) = MaxLen
    /\ Len(input) = MAX_INPUT_SIZE
    /\ mem[h_input_addr + MAX_INPUT_SIZE - 1] = 1

\* C27: a first_exec that could not install the hook still attaches a fresh
\* ExecMeta record and leaves the worker ready to execute candidates; with no
\* hook installed every syscall of the guest is executed for real: no staged
\* byte is taken or delivered, the flag is not set, and an exit is the
\* process's own exit, not an abort classified as a crash.
C27_InstallFailureOnlyLogged ==
    [][/\ (pc = "ready" /\ ~first_done /\ first_done' /\ hooks' = hooks) =>
            (metadata' = <<ExecMetaNew>> /\ pc' = "ready" /\ hooks' = 0)
       /\ (pc = "guest" /\ hooks = 0 /\ last' # last /\ last'.sys # "none") =>
            /\ last'.res = "real"
            /\ pc' = (IF last'.sys \in Exits THEN "exited" ELSE "guest")
            /\ UNCHANGED <<input, delivered, metadata, mem, verdict>>
       /\ (pc' = "guest" /\ hooks' = 0) =>
            (delivered' = <<>> /\ input' = Truncated(cur') /\ ~Ignore')]_vars

C27_Witness ==
    /\ pc = "guest" /\ hooks = 0 /\ first_done /\ stale
    /\ last.sys = "read" /\ last.res = "real"
    /\ input # <<>> /\ metadata = <<ExecMetaNew>>

\* C28: whenever a hook exists and the guest runs, the injector is in the
\* emulator's module tuple, the engine state is handed to the hook and holds
\* an ExecMeta record; so the mmap, munmap and exit branches never panic, and
\* the read branch panics on an unwritable destination only.
C28_LookupsNeverFail ==
    /\ (GuestRuns /\ hooks > 0) =>
            /\ \E i \in 1..Len(modules) : modules[i] = "input_injector"
            /\ pc = "guest" /\ first_done
            /\ Len(metadata) = 1
    /\ (last.res = "pending" /\ last.sys \in {"mmap", "munmap"} \cup Exits) =>
            pc = "aborted"
    /\ (last.res = "pending" /\ last.sys = "read") =>
            (pc = "panicked" /\ last.a1 \notin mapped /\ last.a2 > 0)

C28_Witness ==
    /\ pc = "aborted" /\ last.sys = "exit" /\ hooks = 1 /\ inherited
    /\ Ignore /\ ModuleFound(modules) /\ delivered # <<>>

====
